---- MODULE Spec2Model ----
(***************************************************************************)
(* LevelUp Leo: the progression-and-economy ledger of the bot.             *)
(*                                                                         *)
(*   bot.py      the SQLAlchemy ledger (class User), the level curve, the  *)
(*               achievement evaluator, process_message, /daily, the shop  *)
(*               item handlers and /prestige                               *)
(*   database.py the asyncpg users table; process_prestige                 *)
(*   economy.py  EconomySystem over the asyncpg users table                *)
(*                                                                         *)
(* Three specifications share the definitions below:                       *)
(*   Spec        every handler of bot.py as one step on the persisted row  *)
(*               (handlers run one after the other)                        *)
(*   SpecSession the handlers of bot.py split at their await points, over  *)
(*               the one Session the scoped_session registry hands out     *)
(*   SpecEconomy the coroutines of economy.py split at their await points  *)
(***************************************************************************)
EXTENDS Integers, Sequences, FiniteSets, TLC

(***************************************************************************)
(* Program constants                                                       *)
(***************************************************************************)
MAX_MESSAGES_PER_SECOND == 30
RATE_LIMIT_WINDOW == 60
MAX_TITLE_LENGTH == 20
XP_COOLDOWN_SECONDS == 60
LEVEL_UP_COIN_BONUS == 50
START_HUBCOINS == 100
TITLE_COST == 1000
BOOST_COST == 500
VIP_COST == 10000
MYSTERY_COST == 1000
SPOTLIGHT_COST == 2500
NAMECHANGE_COST == 500
CONSOLATION_COINS == 500
PRESTIGE_MIN_LEVEL == 100
RICH_COINS == 10000
DAILY_BASE_REWARD == 100
DAILY_VIP_BONUS == 100
DAILY_STREAK_CAP == 500
DAILY_STREAK_STEP == 10
\* the clock counts seconds
SECONDS_PER_HOUR == 60 * 60
SECONDS_PER_DAY == 24 * SECONDS_PER_HOUR
TITLE_DAYS == 7
VIP_DAYS == 30
BOOST_HOURS == 24
MYSTERY_BOOST_HOURS == 12

\* a DateTime column that holds None
NoTime == -1

(***************************************************************************)
(* LevelSystem (bot.py)                                                    *)
(***************************************************************************)
\* the curve below with the base of the third segment left out
calculate_xp_for_level_no_base(level) ==
    IF level <= 0 THEN 0
    ELSE IF level <= 10 THEN level * 100
    ELSE IF level <= 25 THEN 1000 + (level - 10) * 250
    ELSE IF level <= 50 THEN 1000 + (level - 25) * 500
    ELSE IF level <= 100 THEN 17250 + (level - 50) * 1000
    ELSE 67250 + (level - 100) * 2000

calculate_xp_for_level(level) ==
    IF level <= 0 THEN 0
    ELSE IF level <= 10 THEN level * 100
    ELSE IF level <= 25 THEN 1000 + (level - 10) * 250
    ELSE IF level <= 50 THEN 4750 + (level - 25) * 500
    ELSE IF level <= 100 THEN 17250 + (level - 50) * 1000
    ELSE 67250 + (level - 100) * 2000

\* a level the loops below have left when they reach it: both curves ask
\* for at least 100 XP more on every level, so the threshold of the level
\* after it is above xp
ScanEnd(xp, level) == level + (IF xp > 0 THEN xp \div 100 ELSE 0) + 1

\* the loop below with > for >=
LevelScanStrict(xp, level) ==
    CHOOSE l \in level..ScanEnd(xp, level) :
        /\ ~(xp > calculate_xp_for_level(l + 1))
        /\ \A k \in level..(l - 1) : xp > calculate_xp_for_level(k + 1)

\* the while loop of calculate_level_from_xp, entered with the running
\* level: the level it stops at is the first whose next threshold is above
\* xp, every level before it having passed the test of the loop
LevelScan(xp, level) ==
    CHOOSE l \in level..ScanEnd(xp, level) :
        /\ ~(xp >= calculate_xp_for_level(l + 1))
        /\ \A k \in level..(l - 1) : xp >= calculate_xp_for_level(k + 1)

\* the function below with the loop entered at level 1
calculate_level_from_xp_from_one(xp) == LevelScan(xp, 1)

calculate_level_from_xp(xp) == LevelScan(xp, 0)

(***************************************************************************)
(* LevelSystem (level_system.py)                                           *)
(***************************************************************************)
xp_for_level(level) ==
    IF level <= 0 THEN 0
    ELSE IF level = 1 THEN 100
    ELSE IF level <= 10 THEN level * 10 * 10
    ELSE IF level <= 25 THEN 10 * 10 * 10 + (level - 10) * 25 * 10
    ELSE IF level <= 50
         THEN 10 * 10 * 10 + 15 * 25 * 10 + (level - 25) * 50 * 10
    ELSE 10 * 10 * 10 + 15 * 25 * 10 + 25 * 50 * 10 + (level - 50) * 100 * 10

\* the while loop of calculate_level, entered with the running level: the
\* level it stops at is the first whose next threshold is above total_xp
CalculateLevelScan(total_xp, level) ==
    CHOOSE l \in level..ScanEnd(total_xp, level) :
        /\ ~(xp_for_level(l + 1) <= total_xp)
        /\ \A k \in level..(l - 1) : xp_for_level(k + 1) <= total_xp

calculate_level(total_xp) == CalculateLevelScan(total_xp, 0)

(***************************************************************************)
(* InputValidator.validate_title (bot.py).  A title is a sequence of       *)
(* one-character strings.                                                  *)
(***************************************************************************)
Upper == {"A", "D", "L", "M"}
Lowers == {"a", "d", "e", "i", "l", "m", "n", "o"}
Digits == {"1"}

lower(c) ==
    CASE c = "A" -> "a"
      [] c = "D" -> "d"
      [] c = "L" -> "l"
      [] c = "M" -> "m"
      [] OTHER -> c

LowerStr(s) == [i \in 1..Len(s) |-> lower(s[i])]

\* word in s (substring test)
Contains(s, word) ==
    \E i \in 1..(Len(s) - Len(word) + 1) :
        SubSeq(s, i, i + Len(word) - 1) = word

banned_words ==
    { <<"a", "d", "m", "i", "n">>,
      <<"m", "o", "d">>,
      <<"o", "w", "n", "e", "r">>,
      <<"o", "f", "f", "i", "c", "i", "a", "l">> }

RECURSIVE LStrip(_)
LStrip(s) == IF s # <<>> /\ Head(s) = " " THEN LStrip(Tail(s)) ELSE s

RECURSIVE RStrip(_)
RStrip(s) ==
    IF s # <<>> /\ s[Len(s)] = " " THEN RStrip(SubSeq(s, 1, Len(s) - 1)) ELSE s

strip(s) == LStrip(RStrip(s))

\* s.replace(' ', '').isalnum(): at least one character is left and every
\* character left is a letter or a digit
IsAlnumNoSpaces(s) ==
    /\ \E i \in 1..Len(s) : s[i] # " "
    /\ \A i \in 1..Len(s) : s[i] \in (Upper \cup Lowers \cup Digits \cup {" "})

\* the restricted words looked for in the title as typed, not in title.lower()
validate_title_case_sensitive(title) ==
    IF title = <<>> THEN <<FALSE, <<>>>>
    ELSE IF Len(title) > MAX_TITLE_LENGTH THEN <<FALSE, <<>>>>
    ELSE IF \E w \in banned_words : Contains(title, w)
         THEN <<FALSE, <<>>>>
    ELSE IF ~IsAlnumNoSpaces(strip(title)) THEN <<FALSE, <<>>>>
    ELSE <<TRUE, strip(title)>>

\* <<is_valid, clean_title>>; the error text of a rejection is not modelled
validate_title(title) ==
    IF title = <<>> THEN <<FALSE, <<>>>>
    ELSE IF Len(title) > MAX_TITLE_LENGTH THEN <<FALSE, <<>>>>
    ELSE IF \E w \in banned_words : Contains(LowerStr(title), w)
         THEN <<FALSE, <<>>>>
    ELSE IF ~IsAlnumNoSpaces(strip(title)) THEN <<FALSE, <<>>>>
    ELSE <<TRUE, strip(title)>>

(***************************************************************************)
(* AchievementManager (bot.py)                                             *)
(***************************************************************************)
ACHIEVEMENTS ==
    { "first_message", "message_100", "message_1000",
      "level_10", "level_50", "level_100",
      "streak_7", "streak_30", "streak_100",
      "vip", "prestige_1", "rich" }

AchievementReward(key) ==
    CASE key = "first_message" -> 50
      [] key = "message_100" -> 100
      [] key = "message_1000" -> 500
      [] key = "level_10" -> 100
      [] key = "level_50" -> 500
      [] key = "level_100" -> 1000
      [] key = "streak_7" -> 150
      [] key = "streak_30" -> 500
      [] key = "streak_100" -> 2000
      [] key = "vip" -> 200
      [] key = "prestige_1" -> 1000
      [] key = "rich" -> 500

\* the test "if achievement_key in user.achievements"
AlreadyHas(user, key) == key \in user.achievements

check_and_award(user, key) ==
    IF AlreadyHas(user, key) THEN user
    ELSE IF key \notin ACHIEVEMENTS THEN user
    ELSE [user EXCEPT !.achievements = @ \cup {key},
                      !.hubcoins = @ + AchievementReward(key),
                      !.total_coins_earned = @ + AchievementReward(key)]

\* the conditions of check_all_achievements, in the order it tests them
AchievementOrder ==
    << "first_message", "message_100", "message_1000",
       "level_10", "level_50", "level_100",
       "streak_7", "streak_30", "streak_100",
       "rich", "prestige_1" >>

Qualifies(user, key) ==
    CASE key = "first_message" -> user.messages_count >= 1
      [] key = "message_100" -> user.messages_count >= 100
      [] key = "message_1000" -> user.messages_count >= 1000
      [] key = "level_10" -> user.level >= 10
      [] key = "level_50" -> user.level >= 50
      [] key = "level_100" -> user.level >= 100
      [] key = "streak_7" -> user.daily_streak >= 7
      [] key = "streak_30" -> user.daily_streak >= 30
      [] key = "streak_100" -> user.daily_streak >= 100
      [] key = "rich" -> user.hubcoins >= RICH_COINS
      [] key = "prestige_1" -> user.prestige >= 1

RECURSIVE CheckFrom(_, _)
CheckFrom(user, i) ==
    IF i > Len(AchievementOrder) THEN user
    ELSE CheckFrom(IF Qualifies(user, AchievementOrder[i])
                   THEN check_and_award(user, AchievementOrder[i])
                   ELSE user,
                   i + 1)

\* the user as check_all_achievements leaves it; the returned list `earned`
\* is the set of ids it added
check_all_achievements(user) == CheckFrom(user, 1)

EarnedBy(before, after) == after.achievements \ before.achievements
(***************************************************************************)
(* class User (bot.py): the columns the handlers read or write.            *)
(* username, join_date, badges, message_timestamps, warnings, is_banned    *)
(* and ban_reason are written by no handler; last_active is written        *)
(* together with last_message_date and read by none.                       *)
(***************************************************************************)
\* the row an INSERT of User(user_id, username, first_name) produces: the
\* column defaults are filled in by the flush, not by the constructor
DefaultUser(first_name) ==
    [ first_name |-> first_name,
      level |-> 0,
      messages_count |-> 0,
      prestige |-> 0,
      hubcoins |-> START_HUBCOINS,
      reputation |-> 0,
      xp |-> 0,
      last_message_date |-> NoTime,
      vip_member |-> FALSE,
      vip_expiry |-> NoTime,
      custom_title |-> <<>>,
      custom_title_expiry |-> NoTime,
      spotlight_priority |-> FALSE,
      boost_active |-> FALSE,
      boost_expiry |-> NoTime,
      daily_streak |-> 0,
      last_daily_date |-> NoTime,
      achievements |-> {},
      total_xp_earned |-> 0,
      total_coins_earned |-> 0,
      total_coins_spent |-> 0 ]

\* datetime.date(): the calendar day of a timestamp
Date(t) == t \div SECONDS_PER_DAY

(***************************************************************************)
(* MessageProcessor.process_message (bot.py), lines 752-794, on a loaded   *)
(* user.  xp_draw is random.randint(10, 25), coin_draw random.randint(1,   *)
(* 5); send_ok tells whether _send_level_up_message returns or raises.     *)
(***************************************************************************)
BoostApplies(user, now) == user.boost_active /\ user.boost_expiry > now

\* the coin multiplier tied to the boost instead of VIP
VipAppliesOnBoost(user, now) == user.boost_active /\ user.boost_expiry > now

VipApplies(user, now) ==
    user.vip_member /\ (user.vip_expiry = NoTime \/ user.vip_expiry > now)

\* lines 753-772: the counters and the gains
MessageGains(user, now, xp_draw, coin_draw) ==
    LET base_xp == IF BoostApplies(user, now) THEN xp_draw * 2 ELSE xp_draw
        base_coins == IF VipApplies(user, now) THEN coin_draw * 2 ELSE coin_draw
    IN  [user EXCEPT !.messages_count = @ + 1,
                     !.last_message_date = now,
                     !.xp = @ + base_xp,
                     !.total_xp_earned = @ + base_xp,
                     !.hubcoins = @ + base_coins,
                     !.total_coins_earned = @ + base_coins]

\* line 776
LevelUpOccurred(old_level, gained) ==
    calculate_level_from_xp(gained.xp) > old_level

\* lines 778-783
LevelUp(gained) ==
    LET new_level == calculate_level_from_xp(gained.xp)
        level_bonus == new_level * LEVEL_UP_COIN_BONUS
    IN  [gained EXCEPT !.level = new_level,
                       !.hubcoins = @ + level_bonus,
                       !.total_coins_earned = @ + level_bonus]

\* the user object when the try block is left: a raise of
\* _send_level_up_message is caught at line 805, after the level-up writes
\* and before check_all_achievements
process_message(user, now, xp_draw, coin_draw, send_ok) ==
    LET gained == MessageGains(user, now, xp_draw, coin_draw)
    IN  IF LevelUpOccurred(user.level, gained)
        THEN IF send_ok
             THEN check_all_achievements(LevelUp(gained))
             ELSE LevelUp(gained)
        ELSE check_all_achievements(gained)
(***************************************************************************)
(* CommandHandlers.daily (bot.py), lines 1010-1045, on a loaded user       *)
(***************************************************************************)
\* the test below with "a later date" for "the same date"
AlreadyClaimedLaterDate(user, now) ==
    user.last_daily_date # NoTime /\ Date(user.last_daily_date) > Date(now)

\* lines 1010-1013: the last claim was made on today's date
AlreadyClaimed(user, now) ==
    user.last_daily_date # NoTime /\ Date(user.last_daily_date) = Date(now)

Min(a, b) == IF a <= b THEN a ELSE b

\* the rule below with "a day or more" for "exactly one day"
NextStreakAnyGap(user, now) ==
    IF /\ user.last_daily_date # NoTime
       /\ Date(now) - Date(user.last_daily_date) >= 1
    THEN user.daily_streak + 1
    ELSE 1

\* lines 1028-1031: the streak of a claim that is granted
NextStreak(user, now) ==
    IF /\ user.last_daily_date # NoTime
       /\ Date(now) - Date(user.last_daily_date) = 1
    THEN user.daily_streak + 1
    ELSE 1

daily(user, now) ==
    LET streak == NextStreak(user, now)
        streak_bonus == Min(DAILY_STREAK_CAP, streak * DAILY_STREAK_STEP)
        vip_bonus == IF user.vip_member THEN DAILY_VIP_BONUS ELSE 0
        total_reward == DAILY_BASE_REWARD + streak_bonus + vip_bonus
    IN  IF AlreadyClaimed(user, now) THEN user
        ELSE check_all_achievements(
                 [user EXCEPT !.daily_streak = streak,
                              !.hubcoins = @ + total_reward,
                              !.total_coins_earned = @ + total_reward,
                              !.last_daily_date = now])

(***************************************************************************)
(* The shop item handlers (bot.py), each on a loaded user: the user object *)
(* when the handler returns, and how it ended.                             *)
(***************************************************************************)
\* two ways to get the test below wrong: off by one, and against zero
InsufficientCoinsOffByOne(user, cost) == user.hubcoins < cost - 1

InsufficientCoinsBelowZero(user, cost) == user.hubcoins < 0

\* the test "user.hubcoins < cost" that every item handler makes
InsufficientCoins(user, cost) == user.hubcoins < cost

\* the payment booked with the wrong sign on the coins spent
PaySpentDown(user, cost) ==
    [user EXCEPT !.hubcoins = @ - cost, !.total_coins_spent = @ - cost]

Pay(user, cost) ==
    [user EXCEPT !.hubcoins = @ - cost, !.total_coins_spent = @ + cost]

Rejected(user, why) == [user |-> user, outcome |-> why]

\* args: the words after "/buy title"
_buy_title(user, now, args) ==
    IF args = <<>> THEN Rejected(user, "usage")
    ELSE IF ~validate_title(args)[1] THEN Rejected(user, "invalid")
    ELSE IF InsufficientCoins(user, TITLE_COST) THEN Rejected(user, "insufficient")
    ELSE [user |-> [Pay(user, TITLE_COST) EXCEPT
                       !.custom_title = validate_title(args)[2],
                       !.custom_title_expiry = now + TITLE_DAYS * SECONDS_PER_DAY],
          outcome |-> "ok"]

_buy_boost(user, now) ==
    IF InsufficientCoins(user, BOOST_COST) THEN Rejected(user, "insufficient")
    ELSE [user |-> [Pay(user, BOOST_COST) EXCEPT
                       !.boost_active = TRUE,
                       !.boost_expiry = now + BOOST_HOURS * SECONDS_PER_HOUR],
          outcome |-> "ok"]

_buy_vip(user, now) ==
    IF InsufficientCoins(user, VIP_COST) THEN Rejected(user, "insufficient")
    ELSE [user |-> check_and_award(
                       [Pay(user, VIP_COST) EXCEPT
                           !.vip_member = TRUE,
                           !.vip_expiry = now + VIP_DAYS * SECONDS_PER_DAY],
                       "vip"),
          outcome |-> "ok"]

_buy_spotlight(user) ==
    IF InsufficientCoins(user, SPOTLIGHT_COST) THEN Rejected(user, "insufficient")
    ELSE [user |-> [Pay(user, SPOTLIGHT_COST) EXCEPT !.spotlight_priority = TRUE],
          outcome |-> "ok"]

\* new_name: the words after "/buy namechange", joined and cut to 50
_buy_namechange(user, new_name) ==
    IF new_name = "" THEN Rejected(user, "usage")
    ELSE IF InsufficientCoins(user, NAMECHANGE_COST)
         THEN Rejected(user, "insufficient")
    ELSE [user |-> [Pay(user, NAMECHANGE_COST) EXCEPT !.first_name = new_name],
          outcome |-> "ok"]

\* draw: what the four random tests of the mystery box gave; an amount of 0
\* says the test failed (random.random() was not below its threshold)
MysteryRewards(user, now, draw) ==
    LET c == IF draw.coins > 0
             THEN [user EXCEPT !.hubcoins = @ + draw.coins,
                               !.total_coins_earned = @ + draw.coins]
             ELSE user
        x == IF draw.xp > 0
             THEN [c EXCEPT !.xp = @ + draw.xp,
                            !.total_xp_earned = @ + draw.xp]
             ELSE c
        b == IF draw.boost
             THEN [x EXCEPT !.boost_active = TRUE,
                            !.boost_expiry = now + MYSTERY_BOOST_HOURS * SECONDS_PER_HOUR]
             ELSE x
        r == IF draw.rep > 0
             THEN [b EXCEPT !.reputation = @ + draw.rep]
             ELSE b
    IN  r

\* the rewards list taken as never empty: no consolation prize
NoRewardsNever(draw) == FALSE

NoRewards(draw) ==
    draw.coins = 0 /\ draw.xp = 0 /\ ~draw.boost /\ draw.rep = 0

_buy_mystery(user, now, draw) ==
    IF InsufficientCoins(user, MYSTERY_COST) THEN Rejected(user, "insufficient")
    ELSE LET rewarded == MysteryRewards(Pay(user, MYSTERY_COST), now, draw)
         IN  [user |-> IF NoRewards(draw)
                       THEN [rewarded EXCEPT !.hubcoins = @ + CONSOLATION_COINS]
                       ELSE rewarded,
              outcome |-> "ok"]

(***************************************************************************)
(* Prestige.  CommandHandlers.prestige (bot.py) tests the level and shows  *)
(* the confirmation keyboard; the handler of the confirmation is not in    *)
(* the source, the reset it performs is Database.process_prestige          *)
(* (database.py).                                                          *)
(***************************************************************************)
\* the test below with the limit one level lower
NotEligibleBelow99(user) == user.level < PRESTIGE_MIN_LEVEL - 1

\* the test "user.level < 100" of CommandHandlers.prestige
NotEligible(user) == user.level < PRESTIGE_MIN_LEVEL

\* the reward below counted with the prestige the user has, not the next
prestige_rewards_old_count(user) == 1000 * user.prestige

\* line 1326: prestige_rewards
prestige_rewards(user) == 1000 * (user.prestige + 1)

\* UPDATE users SET level = 1, xp = 0, prestige = prestige + 1
process_prestige(user) ==
    [user EXCEPT !.level = 1, !.xp = 0, !.prestige = @ + 1]
(***************************************************************************)
(* The session (bot.py, DatabaseManager.get_session).  The commit flushes  *)
(* the attributes the unit of work saw set.  achievements is a plain JSON  *)
(* column (line 209): check_and_award assigns it only when it is empty     *)
(* (lines 547-548) and otherwise writes into the loaded dict (line 559),   *)
(* which the flush does not see.                                           *)
(***************************************************************************)
Flush(row, obj) ==
    [obj EXCEPT !.achievements =
        IF row.achievements = {} THEN obj.achievements ELSE row.achievements]

(***************************************************************************)
(* Bounds and inputs                                                       *)
(***************************************************************************)
MaxSteps == 2
StartTime == 10 * SECONDS_PER_DAY

Users == {"u1", "u2"}
XpDraws == {10, 25}
CoinDraws == {1, 5}
TickDeltas == {30, SECONDS_PER_DAY}
MysteryDraws ==
    [coins : {0, 500, 5000}, xp : {0, 100}, boost : BOOLEAN, rep : {0, 5}]
\* what the calls a handler awaits do: all return, or one of them raises
MessageFates == {"ok", "outside_group", "send_raises", "notify_raises", "commit_raises"}
HandlerFates == {"ok", "reply_raises", "commit_raises"}
TitleInputs ==
    { <<>>,
      <<"L", "e", "o">>,
      <<"L", "e", "o", " ", "1">>,
      <<"A", "d", "m", "i", "n">>,
      <<"L", "e", "o", "!">>,
      [i \in 1..(MAX_TITLE_LENGTH + 1) |-> "a"] }
NameInputs == {"", "Leo"}
BuyWords == {<<>>, <<"boost">>, <<"sticker">>}
UnknownWords == {"sticker"}

VARIABLES
    db,        \* the users table of bot.py: user id -> row
    rows,      \* the user ids that have a row
    now,       \* datetime.utcnow(), in seconds
    rate,      \* CacheManager.rate_limit_cache: user id -> count and expiry
    pending,   \* the users shown a prestige confirmation keyboard
    grants,    \* history: how often each achievement reward was committed
    last,      \* history: the last handler run, the row before it and the
               \* user object it flushed
    steps,     \* handlers run so far
    \* the handlers of bot.py taken one await at a time
    op,        \* task -> the handler it runs and what it draws
    pc,        \* task -> the await it is suspended at
    ref,       \* task -> the User object its query returned
    heap,      \* User object -> its attributes
    attached,  \* the User object in the identity map of the Session
    txn,       \* the row as the open transaction of the Session sees it
    identity,  \* the User objects of different users in the identity map
    \* the coroutines of economy.py taken one await at a time
    coins,     \* users.hubcoins of database.py: account -> balance
    opening,   \* history: the balances the calls started from
    call,      \* caller -> the call, its position, the balance it read
    \* the level curves called on their own
    curve,     \* the last call of a curve function: arguments and results
    \* rate_limit_cache of bot.py at its capacity
    crowd,     \* the entries of other identities, by their place in the
               \* order of use: before or after the entry of the watched one
    admitted,  \* history: events of the watched identity admitted at this time
    \* SimpleLevelupBot of test_bot.py
    user_data, \* self.user_data: user id -> xp and level
    bot_id,    \* self.bot_id
    heard      \* history: the last update handled and user_data before it

ledgerVars == <<db, rows, now, rate, pending, grants, last, steps>>

sessionVars == <<op, pc, ref, heap, attached, txn, identity>>

economyVars == <<coins, opening, call>>

curveVars == <<curve>>

cacheVars == <<crowd, admitted>>

simpleVars == <<user_data, bot_id, heard>>

(***************************************************************************)
(* Starting rows.  Each is a row the handlers below produce.               *)
(***************************************************************************)
\* 99 processed messages that each drew 10 XP and 1 coin, the level bonuses
\* of levels 1..9 (2250), first_message (50), three name changes (1500)
MidUser ==
    [DefaultUser("Leo") EXCEPT
        !.level = 9, !.xp = 990, !.total_xp_earned = 990,
        !.messages_count = 99,
        !.hubcoins = 999,
        !.total_coins_earned = 2399, !.total_coins_spent = 1500,
        !.last_message_date = StartTime - SECONDS_PER_HOUR,
        !.achievements = {"first_message"}]

\* a long-standing user one message below level 100, who claimed the daily
\* reward on each of the last six days and whose VIP month ended yesterday
TopUser ==
    [DefaultUser("Leo") EXCEPT
        !.daily_streak = 6,
        !.last_daily_date = StartTime - SECONDS_PER_HOUR,
        !.vip_member = TRUE,
        !.vip_expiry = StartTime - SECONDS_PER_DAY,
        !.level = 99, !.xp = 67240, !.total_xp_earned = 67240,
        !.messages_count = 3000,
        !.hubcoins = 10000,
        !.total_coins_earned = 509900, !.total_coins_spent = 500000,
        !.last_message_date = StartTime - 30,
        !.achievements = {"first_message"}]

\* TopUser after the message that takes it to level 100
ReadyUser == Flush(TopUser, process_message(TopUser, StartTime, 10, 1, TRUE))

StartRows == {MidUser, TopUser, ReadyUser}

NoRate == [count |-> 0, expires |-> 0]

\* the counter of a user, as rate_limit_cache.get(key, 0) reads it
RateCount(u) == IF now < rate[u].expires THEN rate[u].count ELSE 0

GrantsOf(row) == [k \in ACHIEVEMENTS |-> IF k \in row.achievements THEN 1 ELSE 0]

Idle == [op |-> "none", user |-> "u1", outcome |-> "none", existed |-> FALSE,
         pre |-> DefaultUser("User"), obj |-> DefaultUser("User"), item |-> "none",
         args |-> <<>>]

LedgerInit ==
    /\ now = StartTime
    /\ \/ /\ rows = {}
          /\ db = [u \in Users |-> DefaultUser("User")]
          /\ rate = [u \in Users |-> NoRate]
       \/ \E r \in StartRows :
            /\ rows = {"u1"}
            /\ db = [u \in Users |-> IF u = "u1" THEN r ELSE DefaultUser("User")]
            /\ rate = [u \in Users |->
                         IF u = "u1" /\ r # MidUser
                         THEN [count |-> MAX_MESSAGES_PER_SECOND - 1,
                               expires |-> StartTime + 30]
                         ELSE NoRate]
    /\ pending = {}
    /\ grants = [u \in Users |-> GrantsOf(db[u])]
    /\ last = Idle
    /\ steps = 0

\* args: the inputs of the run that the history keeps: the words of the
\* command, the title asked for by its characters, the draws of a mystery box
RanWith(handler, u, outcome, obj, item, args) ==
    [op |-> handler, user |-> u, outcome |-> outcome, existed |-> u \in rows,
     pre |-> db[u], obj |-> obj, item |-> item, args |-> args]

Ran(handler, u, outcome, obj, item) == RanWith(handler, u, outcome, obj, item, <<>>)

\* the rewards a committed unit of work added to the balance
CountGrants(u, before, after) ==
    [grants EXCEPT ![u] =
        [k \in ACHIEVEMENTS |-> IF k \in EarnedBy(before, after) THEN @[k] + 1 ELSE @[k]]]
(***************************************************************************)
(* Spec: one step per handler.  The handler's session is opened, used and  *)
(* closed within the step.                                                 *)
(***************************************************************************)
Step ==
    /\ steps < MaxSteps
    /\ steps' = steps + 1
    /\ UNCHANGED <<sessionVars, economyVars, curveVars, cacheVars, simpleVars>>

\* process_message, lines 732-745: a message outside the group, or one over
\* the rate limit, returns before the session is opened
MessageDropped(u, fate) ==
    /\ Step
    /\ \/ /\ fate = "outside_group"
          /\ last' = Ran("message", u, "ignored", db[u], "none")
       \/ /\ fate = "ok"
          /\ RateCount(u) >= MAX_MESSAGES_PER_SECOND
          /\ last' = Ran("message", u, "rate_limited", db[u], "none")
    /\ UNCHANGED <<db, rows, now, rate, pending, grants>>

\* check_rate_limit, lines 395-401, for an admitted message
Admit(u) ==
    /\ RateCount(u) < MAX_MESSAGES_PER_SECOND
    /\ rate' = [rate EXCEPT ![u] = [count |-> RateCount(u) + 1,
                                    expires |-> now + RATE_LIMIT_WINDOW]]

\* process_message for a user without a row: the user is constructed and
\* added (lines 815-820); its attributes are None until the flush, so line
\* 754 raises, line 805 catches, and the commit inserts the default row
FirstMessage(u, fate) ==
    /\ Step
    /\ fate \in {"ok", "commit_raises"}
    /\ u \notin rows
    /\ Admit(u)
    /\ rows' = IF fate = "ok" THEN rows \cup {u} ELSE rows
    /\ db' = [db EXCEPT ![u] = DefaultUser("User")]
    /\ last' = Ran("message", u, IF fate = "ok" THEN "error" ELSE "rollback",
                   DefaultUser("User"), "none")
    /\ UNCHANGED <<now, pending, grants>>

\* process_message, lines 747-806, for a user with a row
ProcessMessage(u, fate, xp_draw, coin_draw) ==
    LET obj == process_message(db[u], now, xp_draw, coin_draw, fate # "send_raises")
    IN  /\ Step
        /\ fate # "outside_group"
        /\ u \in rows
        /\ fate = "send_raises" => LevelUpOccurred(db[u].level, obj)
        /\ fate = "notify_raises" => EarnedBy(db[u], obj) # {}
        /\ Admit(u)
        /\ db' = IF fate # "commit_raises"
                 THEN [db EXCEPT ![u] = Flush(db[u], obj)]
                 ELSE db
        /\ grants' = IF fate # "commit_raises"
                     THEN CountGrants(u, db[u], obj)
                     ELSE grants
        /\ last' = Ran("message", u,
                       CASE fate = "ok" -> "ok"
                         [] fate = "commit_raises" -> "rollback"
                         [] OTHER -> "failed",
                       IF fate # "commit_raises" THEN obj ELSE db[u], "none")
        /\ UNCHANGED <<rows, now, pending>>

\* a handler that loads the user, changes it and replies before it returns:
\* a reply that raises leaves the with block without a commit
Commit(u, obj, outcome, fate, handler, item, args) ==
    LET written == fate = "ok"
    IN  /\ db' = IF written THEN [db EXCEPT ![u] = Flush(db[u], obj)] ELSE db
        /\ grants' = IF written THEN CountGrants(u, db[u], obj) ELSE grants
        /\ last' = RanWith(handler, u,
                           IF outcome # "ok" THEN outcome
                           ELSE CASE fate = "ok" -> "ok"
                                  [] fate = "reply_raises" -> "failed"
                                  [] OTHER -> "rollback",
                           IF written THEN obj ELSE db[u], item, args)

\* daily, buy and prestige for a user without a row: a reply and no write
NoSuchUser(u, handler) ==
    /\ Step
    /\ u \notin rows
    /\ handler \in {"daily", "buy", "prestige"}
    /\ last' = Ran(handler, u, "no_user", db[u], "none")
    /\ UNCHANGED <<db, rows, now, rate, pending, grants>>

\* daily, lines 997-1054
Daily(u, fate) ==
    /\ Step
    /\ u \in rows
    /\ Commit(u, daily(db[u], now),
              IF AlreadyClaimed(db[u], now) THEN "already" ELSE "ok",
              fate, "daily", "none", <<>>)
    /\ UNCHANGED <<rows, now, rate, pending>>

\* the item names the dispatch of buy tests for, lines 1106-1117
BuyItemNames == {"title", "boost", "spotlight", "vip", "mystery", "namechange"}

\* buy, lines 1087-1093: context.args is the list of words, and line 1093
\* calls lower() on it, which a list does not have, whatever the words are
Buy(u, words) ==
    /\ Step
    /\ last' = RanWith("buy", u, IF words # <<>> THEN "error" ELSE "usage",
                       db[u], "none", words)
    /\ UNCHANGED <<db, rows, now, rate, pending, grants>>

\* an item handler, entered from the dispatch of buy (lines 1096-1119) with
\* the user the session loaded
BuyItem(u, item, args, result, fate) ==
    /\ Step
    /\ u \in rows
    /\ Commit(u, result.user, result.outcome, fate, "buy", item, args)
    /\ UNCHANGED <<rows, now, rate, pending>>

BuyTitle(u, args, fate) ==
    BuyItem(u, "title", args, _buy_title(db[u], now, args), fate)

BuyBoost(u, fate) == BuyItem(u, "boost", <<>>, _buy_boost(db[u], now), fate)

BuySpotlight(u, fate) == BuyItem(u, "spotlight", <<>>, _buy_spotlight(db[u]), fate)

BuyVip(u, fate) == BuyItem(u, "vip", <<>>, _buy_vip(db[u], now), fate)

\* the history keeps the draws of a box that was opened and committed
BuyMystery(u, draw, fate) ==
    LET result == _buy_mystery(db[u], now, draw)
    IN  BuyItem(u, "mystery",
                IF result.outcome = "ok" /\ fate = "ok" THEN <<draw>> ELSE <<>>,
                result, fate)

BuyNamechange(u, new_name, fate) ==
    BuyItem(u, "namechange", <<>>, _buy_namechange(db[u], new_name), fate)

\* the last branch of the dispatch, lines 1118-1119: a word that is none of
\* the item names is answered with "Unknown item" and nothing is assigned
BuyUnknown(u, word, fate) ==
    /\ word \notin BuyItemNames
    /\ BuyItem(u, "none", <<word>>, Rejected(db[u], "unknown"), fate)

\* prestige, lines 1297-1341: no field is written; an eligible user is shown
\* the confirmation keyboard
Prestige(u) ==
    /\ Step
    /\ u \in rows
    /\ IF NotEligible(db[u])
       THEN /\ last' = Ran("prestige", u, "not_eligible", db[u], "none")
            /\ pending' = pending
       ELSE /\ last' = Ran("prestige", u, "confirm", db[u], "none")
            /\ pending' = pending \cup {u}
    /\ UNCHANGED <<db, rows, now, rate, grants>>

\* the confirmation pressed: the precondition and the bonus of the prestige
\* operation, around the reset of process_prestige; the keyboard stays
PrestigeConfirm(u) ==
    /\ Step
    /\ u \in pending
    /\ pending' = pending
    /\ IF db[u].level < PRESTIGE_MIN_LEVEL
       THEN /\ last' = Ran("prestige_confirm", u, "not_eligible", db[u], "none")
            /\ db' = db
       ELSE LET obj == [process_prestige(db[u]) EXCEPT
                           !.hubcoins = @ + prestige_rewards(db[u])]
            IN  /\ last' = Ran("prestige_confirm", u, "ok", obj, "none")
                /\ db' = [db EXCEPT ![u] = obj]
    /\ UNCHANGED <<rows, now, rate, grants>>

\* time passes between two handlers
Tick(d) ==
    /\ Step
    /\ now' = now + d
    /\ last' = [Idle EXCEPT !.op = "tick"]
    /\ UNCHANGED <<db, rows, rate, pending, grants>>

LedgerNext ==
    \/ \E u \in Users, f \in MessageFates : MessageDropped(u, f)
    \/ \E u \in Users, f \in MessageFates : FirstMessage(u, f)
    \/ \E u \in Users, f \in MessageFates, x \in XpDraws, c \in CoinDraws :
            ProcessMessage(u, f, x, c)
    \/ \E u \in Users, h \in {"daily", "buy", "prestige"} : NoSuchUser(u, h)
    \/ \E u \in Users, f \in HandlerFates : Daily(u, f)
    \/ \E u \in Users, w \in BuyWords : Buy(u, w)
    \/ \E u \in Users, t \in TitleInputs, f \in HandlerFates : BuyTitle(u, t, f)
    \/ \E u \in Users, f \in HandlerFates : BuyBoost(u, f)
    \/ \E u \in Users, f \in HandlerFates : BuySpotlight(u, f)
    \/ \E u \in Users, f \in HandlerFates : BuyVip(u, f)
    \/ \E u \in Users, d \in MysteryDraws, f \in HandlerFates : BuyMystery(u, d, f)
    \/ \E u \in Users, m \in NameInputs, f \in HandlerFates : BuyNamechange(u, m, f)
    \/ \E u \in Users, w \in UnknownWords, f \in HandlerFates : BuyUnknown(u, w, f)
    \/ \E u \in Users : Prestige(u)
    \/ \E u \in Users : PrestigeConfirm(u)
    \/ \E d \in TickDeltas : Tick(d)


(***************************************************************************)
(* SpecSession: process_message and _buy_boost one await at a time.        *)
(* DatabaseManager.Session is a scoped_session (bot.py, line 303) and      *)
(* get_session calls it on the thread of the event loop (line 322), so     *)
(* every handler works on the one Session of that thread: one identity     *)
(* map, one transaction.  Each call handed to asyncio.to_thread is taken   *)
(* as one step; the runs in which two of them overlap are left out.        *)
(***************************************************************************)
Tasks == {"t1", "t2"}
Member == "u1"
NoObject == "none"
TaskOps ==
    [kind : {"message"}, xp_draw : XpDraws, coin_draw : {1}]
        \cup {[kind |-> "boost", xp_draw |-> 0, coin_draw |-> 0]}
SessionRows == {MidUser, ReadyUser}
ExternalCalls == {"send", "notify", "reply"}

SessionIdle ==
    /\ op = [t \in Tasks |-> [kind |-> "boost", xp_draw |-> 0, coin_draw |-> 0]]
    /\ pc = [t \in Tasks |-> "done"]
    /\ ref = [t \in Tasks |-> NoObject]
    /\ heap = [t \in Tasks |-> DefaultUser("User")]
    /\ attached = NoObject
    /\ txn = DefaultUser("User")
    /\ identity = {}

\* the callers of economy.py and the accounts they name
Callers == {"c1", "c2"}
Accounts == {"a", "b"}
NoCall == [kind |-> "none", item |-> "none", amount |-> 0, to |-> "b",
           pc |-> "done", balance |-> 0, result |-> "none"]

EconomyIdle ==
    /\ coins = [a \in Accounts |-> 0]
    /\ opening = [a \in Accounts |-> 0]
    /\ call = [c \in Callers |-> NoCall]

\* no curve function called yet
NoCurveCall ==
    [fn |-> "none", a |-> 0, b |-> 0, bot |-> <<>>, ls |-> <<>>, raised |-> FALSE]

CurveIdle == curve = NoCurveCall

\* rate_limit_cache holding no entry of another identity
NoCrowd == [older |-> 0, newer |-> 0]

CacheIdle == crowd = NoCrowd /\ admitted = 0

\* a user id that is not a key of user_data
NoEntry == [xp |-> -1, level |-> 0]

\* no update handled yet
NoUpdate ==
    [op |-> "none", user |-> "u1", is_bot |-> FALSE, text |-> FALSE,
     pre |-> [u \in Users |-> NoEntry]]

\* SimpleLevelupBot.__init__ (test_bot.py 17-19): no user data, no bot id
SimpleIdle ==
    /\ user_data = [u \in Users |-> NoEntry]
    /\ bot_id = "none"
    /\ heard = NoUpdate

Init ==
    LedgerInit /\ SessionIdle /\ EconomyIdle /\ CurveIdle /\ CacheIdle /\ SimpleIdle

SessionInit ==
    /\ now = StartTime
    /\ rows = {Member}
    /\ \E r \in SessionRows :
         /\ db = [u \in Users |-> IF u = Member THEN r ELSE DefaultUser("User")]
         /\ txn = r
         /\ last = [Idle EXCEPT !.pre = r]
    /\ rate = [u \in Users |-> NoRate]
    /\ pending = {}
    /\ grants = [u \in Users |-> GrantsOf(db[u])]
    /\ steps = 0
    /\ op \in [Tasks -> TaskOps]
    /\ pc = [t \in Tasks |-> "query"]
    /\ ref = [t \in Tasks |-> NoObject]
    /\ heap = [t \in Tasks |-> DefaultUser("User")]
    /\ attached = NoObject
    /\ identity = {}
    /\ EconomyIdle
    /\ CurveIdle
    /\ CacheIdle
    /\ SimpleIdle

\* what a flush of the Session writes: the attached object, if there is one
Flushed == IF attached = NoObject THEN txn ELSE Flush(txn, heap[attached])

SessionFrame ==
    UNCHANGED <<rows, now, rate, pending, grants, last, steps, op, identity,
                economyVars, curveVars, cacheVars, simpleVars>>

\* session.query(User).filter(...).first (lines 810-812; line 1100 for buy):
\* the Session flushes what is pending, then returns the object of its
\* identity map, or loads one
Query(t) ==
    /\ pc[t] = "query"
    /\ txn' = Flushed
    /\ IF attached = NoObject
       THEN /\ heap' = [heap EXCEPT ![t] = Flushed]
            /\ ref' = [ref EXCEPT ![t] = t]
            /\ attached' = t
       ELSE /\ ref' = [ref EXCEPT ![t] = attached]
            /\ UNCHANGED <<heap, attached>>
    /\ pc' = [pc EXCEPT ![t] = "loaded"]
    /\ UNCHANGED db
    /\ SessionFrame

\* what follows check_all_achievements: the notification if something was
\* earned (lines 790-791), then the end of the with block
AfterAchievements(before, after) ==
    IF EarnedBy(before, after) # {} THEN "notify" ELSE "commit"

\* the handler from the return of the query to its next await: lines
\* 753-786 of process_message, lines 1155-1166 of _buy_boost
Modify(t) ==
    LET user == heap[ref[t]]
        gained == MessageGains(user, now, op[t].xp_draw, op[t].coin_draw)
        awarded == check_all_achievements(gained)
    IN  /\ pc[t] = "loaded"
        /\ IF op[t].kind = "boost"
           THEN /\ heap' = [heap EXCEPT ![ref[t]] = _buy_boost(user, now).user]
                /\ pc' = [pc EXCEPT ![t] = "reply"]
           ELSE IF LevelUpOccurred(user.level, gained)
           THEN /\ heap' = [heap EXCEPT ![ref[t]] = LevelUp(gained)]
                /\ pc' = [pc EXCEPT ![t] = "send"]
           ELSE /\ heap' = [heap EXCEPT ![ref[t]] = awarded]
                /\ pc' = [pc EXCEPT ![t] = AfterAchievements(gained, awarded)]
        /\ UNCHANGED <<db, ref, attached, txn>>
        /\ SessionFrame

\* _send_level_up_message returns (line 786); check_all_achievements runs
\* (line 789)
Send(t) ==
    LET user == heap[ref[t]]
        awarded == check_all_achievements(user)
    IN  /\ pc[t] = "send"
        /\ heap' = [heap EXCEPT ![ref[t]] = awarded]
        /\ pc' = [pc EXCEPT ![t] = AfterAchievements(user, awarded)]
        /\ UNCHANGED <<db, ref, attached, txn>>
        /\ SessionFrame

\* _notify_achievements returns (line 791)
Notify(t) ==
    /\ pc[t] = "notify"
    /\ pc' = [pc EXCEPT ![t] = "commit"]
    /\ UNCHANGED <<db, ref, heap, attached, txn>>
    /\ SessionFrame

\* update.message.reply_text of _buy_boost returns (lines 1160, 1168)
Reply(t) ==
    /\ pc[t] = "reply"
    /\ pc' = [pc EXCEPT ![t] = "commit"]
    /\ UNCHANGED <<db, ref, heap, attached, txn>>
    /\ SessionFrame

\* get_session, line 325: session.commit
CommitSession(t) ==
    /\ pc[t] = "commit"
    /\ txn' = Flushed
    /\ db' = [db EXCEPT ![Member] = Flushed]
    /\ pc' = [pc EXCEPT ![t] = "close"]
    /\ UNCHANGED <<ref, heap, attached>>
    /\ SessionFrame

\* get_session, line 331: session.close ends the transaction and empties
\* the identity map
CloseSession(t) ==
    /\ pc[t] = "close"
    /\ txn' = db[Member]
    /\ attached' = NoObject
    /\ pc' = [pc EXCEPT ![t] = "done"]
    /\ UNCHANGED <<db, ref, heap>>
    /\ SessionFrame

SessionNext ==
    \/ \E t \in Tasks : Query(t)
    \/ \E t \in Tasks : Modify(t)
    \/ \E t \in Tasks : Send(t)
    \/ \E t \in Tasks : Notify(t)
    \/ \E t \in Tasks : Reply(t)
    \/ \E t \in Tasks : CommitSession(t)
    \/ \E t \in Tasks : CloseSession(t)

\* one handler alone, from its query to its close
RunAlone(row, o) ==
    IF o.kind = "boost"
    THEN Flush(row, _buy_boost(row, now).user)
    ELSE Flush(row, process_message(row, now, o.xp_draw, o.coin_draw, TRUE))

\* the rows the two handlers leave when one runs after the other
SerialOutcomes ==
    { RunAlone(RunAlone(last.pre, op[a]), op[b]) :
        <<a, b>> \in {<<"t1", "t2">>, <<"t2", "t1">>} }

(***************************************************************************)
(* SpecShared: two handlers, each for a user of its own, one await at a    *)
(* time over the same Session.  The steps between the query and the commit *)
(* are those of SpecSession; the query, the commit and the close act on    *)
(* the identity map, which now holds one object for each user.             *)
(***************************************************************************)
TaskUser == [t \in Tasks |-> IF t = "t1" THEN "u1" ELSE "u2"]

SharedInit ==
    /\ now = StartTime
    /\ rows = Users
    /\ db \in [Users -> SessionRows]
    /\ rate = [u \in Users |-> NoRate]
    /\ pending = {}
    /\ grants = [u \in Users |-> GrantsOf(db[u])]
    /\ last = Idle
    /\ steps = 0
    /\ op \in [Tasks -> TaskOps]
    /\ pc = [t \in Tasks |-> "query"]
    /\ ref = [t \in Tasks |-> NoObject]
    /\ heap = [t \in Tasks |-> DefaultUser("User")]
    /\ attached = NoObject
    /\ txn = DefaultUser("User")
    /\ identity = {}
    /\ EconomyIdle
    /\ CurveIdle
    /\ CacheIdle
    /\ SimpleIdle

SharedFrame ==
    UNCHANGED <<rows, now, rate, pending, grants, last, steps, op, attached, txn,
                economyVars, curveVars, cacheVars, simpleVars>>

\* session.query(User).filter(User.user_id == user_id).first: the row of the
\* handler's own user is loaded into the identity map of the Session
QueryOwn(t) ==
    /\ pc[t] = "query"
    /\ heap' = [heap EXCEPT ![t] = db[TaskUser[t]]]
    /\ ref' = [ref EXCEPT ![t] = t]
    /\ identity' = identity \cup {t}
    /\ pc' = [pc EXCEPT ![t] = "loaded"]
    /\ UNCHANGED db
    /\ SharedFrame

\* get_session, line 325: session.commit flushes every object of the
\* identity map, whichever handler loaded it
CommitShared(t) ==
    /\ pc[t] = "commit"
    /\ db' = [u \in Users |->
                IF \E s \in identity : TaskUser[s] = u
                THEN Flush(db[u], heap[CHOOSE s \in identity : TaskUser[s] = u])
                ELSE db[u]]
    /\ pc' = [pc EXCEPT ![t] = "close"]
    /\ UNCHANGED <<ref, heap, identity>>
    /\ SharedFrame

\* get_session, line 331: session.close empties the identity map
CloseShared(t) ==
    /\ pc[t] = "close"
    /\ identity' = {}
    /\ pc' = [pc EXCEPT ![t] = "done"]
    /\ UNCHANGED <<db, ref, heap>>
    /\ SharedFrame

SharedNext ==
    \/ \E t \in Tasks : QueryOwn(t)
    \/ \E t \in Tasks : Modify(t)
    \/ \E t \in Tasks : Send(t)
    \/ \E t \in Tasks : Notify(t)
    \/ \E t \in Tasks : Reply(t)
    \/ \E t \in Tasks : CommitShared(t)
    \/ \E t \in Tasks : CloseShared(t)

(***************************************************************************)
(* SpecGrants: process_message on users who hold every combination of a    *)
(* boost and VIP: none, running, run out.  The rows are ReadyUser after    *)
(* the purchases that lead to them.                                        *)
(***************************************************************************)
Boosted(row, bought) == Flush(row, _buy_boost(row, bought).user)

Vipped(row, bought) == Flush(row, _buy_vip(row, bought).user)

\* a boost bought an hour ago runs, one bought two days ago has run out;
\* VIP bought yesterday runs, the VIP of ReadyUser ran out yesterday
GrantRows ==
    LET recent == StartTime - SECONDS_PER_HOUR
        long_ago == StartTime - 2 * SECONDS_PER_DAY
        vip == Vipped(ReadyUser, StartTime - SECONDS_PER_DAY)
    IN  { MidUser, ReadyUser,
          Boosted(ReadyUser, recent), Boosted(ReadyUser, long_ago),
          vip, Boosted(vip, recent), Boosted(vip, long_ago) }

GrantsInit ==
    /\ now = StartTime
    /\ rows = {"u1"}
    /\ \E r \in GrantRows :
         db = [u \in Users |-> IF u = "u1" THEN r ELSE DefaultUser("User")]
    /\ rate = [u \in Users |-> NoRate]
    /\ pending = {}
    /\ grants = [u \in Users |-> GrantsOf(db[u])]
    /\ last = Idle
    /\ steps = 0
    /\ SessionIdle
    /\ EconomyIdle
    /\ CurveIdle
    /\ CacheIdle
    /\ SimpleIdle

GrantsNext ==
    \/ \E u \in Users, f \in MessageFates, x \in XpDraws, c \in CoinDraws :
            ProcessMessage(u, f, x, c)
    \/ \E d \in TickDeltas : Tick(d)

(***************************************************************************)
(* SpecAwards: the handlers that end in check_all_achievements, a message  *)
(* and a daily claim, on users next to the conditions of the achievements. *)
(***************************************************************************)
\* ReadyUser after a VIP purchase, a mystery box that gave 2000 coins and
\* nothing else, and the prestige reset: 8901 coins, prestige 1, and
\* prestige_1 not yet awarded
PrestigedUser ==
    LET vip == Vipped(ReadyUser, StartTime - SECONDS_PER_DAY)
        box == [coins |-> 2000, xp |-> 0, boost |-> FALSE, rep |-> 0]
    IN  process_prestige(
            Flush(vip, _buy_mystery(vip, StartTime - SECONDS_PER_HOUR, box).user))

AwardRows == {MidUser, TopUser, PrestigedUser}

AwardsInit ==
    /\ now = StartTime
    /\ rows = {"u1"}
    /\ \E r \in AwardRows :
         db = [u \in Users |-> IF u = "u1" THEN r ELSE DefaultUser("User")]
    /\ rate = [u \in Users |-> NoRate]
    /\ pending = {}
    /\ grants = [u \in Users |-> GrantsOf(db[u])]
    /\ last = Idle
    /\ steps = 0
    /\ SessionIdle
    /\ EconomyIdle
    /\ CurveIdle
    /\ CacheIdle
    /\ SimpleIdle

AwardsNext ==
    \/ \E u \in Users, f \in MessageFates, x \in XpDraws, c \in CoinDraws :
            ProcessMessage(u, f, x, c)
    \/ \E u \in Users, f \in HandlerFates : Daily(u, f)
    \/ \E d \in TickDeltas : Tick(d)

(***************************************************************************)
(* SpecEconomy: EconomySystem (economy.py) one await at a time.  Every     *)
(* statement runs on a connection of its own (pool.acquire) and commits    *)
(* on its own; two callers debit account "a".                              *)
(***************************************************************************)
\* self.shop_items, lines 4-8
ShopItems == {"spotlight", "title", "color"}

ShopCost(item) ==
    CASE item = "spotlight" -> 500
      [] item = "title" -> 1000
      [] item = "color" -> 750

\* the calls the callers make
CallInputs ==
    {[kind |-> "remove_coins", item |-> "none", amount |-> 500, to |-> "b"],
     [kind |-> "gift_coins", item |-> "none", amount |-> 500, to |-> "b"]}
        \cup {[kind |-> "process_purchase", item |-> i, amount |-> 0, to |-> "b"] :
                i \in ShopItems \cup {"sticker"}}
OpeningBalances == {0, 500, 1000}

\* the balances the accounts open with and the call each caller makes, the
\* calls taken from a set of inputs; to is the receiver of a gift
CallsFrom(inputs) ==
    /\ \E b \in OpeningBalances :
         /\ coins = [a \in Accounts |-> IF a = "a" THEN b ELSE 0]
         /\ opening = coins
    /\ \E k \in [Callers -> inputs] :
         call = [c \in Callers |->
                   [kind |-> k[c].kind, item |-> k[c].item, amount |-> k[c].amount,
                    to |-> k[c].to,
                    pc |-> "start", balance |-> 0, result |-> "none"]]

EconomyCalls == CallsFrom(CallInputs)

EconomyInit ==
    /\ LedgerInit
    /\ rows = {}
    /\ SessionIdle
    /\ CurveIdle
    /\ CacheIdle
    /\ SimpleIdle
    /\ EconomyCalls

EconomyFrame ==
    UNCHANGED <<ledgerVars, sessionVars, curveVars, cacheVars, simpleVars, opening>>

Returns(c, result) == call' = [call EXCEPT ![c].pc = "done", ![c].result = result]

Goes(c, label) == call' = [call EXCEPT ![c].pc = label]

\* process_purchase without the test of line 44: an item that is not in
\* shop_items is sold at the price of the spotlight
EnterAnyItem(c) ==
    /\ call[c].pc = "start"
    /\ CASE call[c].kind = "remove_coins" -> Goes(c, "remove_balance")
         [] call[c].kind = "gift_coins" -> Goes(c, "gift_balance")
         [] OTHER ->
              call' = [call EXCEPT ![c].pc = "purchase_balance",
                                   ![c].amount =
                                       IF call[c].item \in ShopItems
                                       THEN ShopCost(call[c].item)
                                       ELSE ShopCost("spotlight")]
    /\ UNCHANGED coins
    /\ EconomyFrame

\* the call is made: process_purchase looks the item up (lines 44-47)
Enter(c) ==
    /\ call[c].pc = "start"
    /\ CASE call[c].kind = "remove_coins" -> Goes(c, "remove_balance")
         [] call[c].kind = "gift_coins" -> Goes(c, "gift_balance")
         [] call[c].item \notin ShopItems -> Returns(c, "invalid")
         [] OTHER ->
              call' = [call EXCEPT ![c].pc = "purchase_balance",
                                   ![c].amount = ShopCost(call[c].item)]
    /\ UNCHANGED coins
    /\ EconomyFrame

\* process_purchase, lines 48-51: get_balance and the test
PurchaseBalance(c) ==
    /\ call[c].pc = "purchase_balance"
    /\ IF coins["a"] < call[c].amount
       THEN Returns(c, "insufficient")
       ELSE Goes(c, "remove_balance")
    /\ UNCHANGED coins
    /\ EconomyFrame

\* gift_coins, lines 61-64: get_balance and the test
GiftBalance(c) ==
    /\ call[c].pc = "gift_balance"
    /\ IF coins["a"] < call[c].amount
       THEN Returns(c, "insufficient")
       ELSE Goes(c, "remove_balance")
    /\ UNCHANGED coins
    /\ EconomyFrame

\* what the caller of remove_coins does with its result: process_purchase
\* reports it (lines 53-57), gift_coins drops it (line 66)
AfterRemove(c, success) ==
    CASE call[c].kind = "gift_coins" -> Goes(c, "gift_add")
      [] success -> Returns(c, "ok")
      [] call[c].kind = "process_purchase" -> Returns(c, "failed")
      [] OTHER -> Returns(c, "insufficient")

\* remove_coins, lines 21-23: get_balance and the test
RemoveBalance(c) ==
    /\ call[c].pc = "remove_balance"
    /\ IF coins["a"] < call[c].amount
       THEN AfterRemove(c, FALSE)
       ELSE Goes(c, "remove_update")
    /\ UNCHANGED coins
    /\ EconomyFrame

\* remove_coins, lines 25-31: UPDATE users SET hubcoins = hubcoins - $3
RemoveUpdate(c) ==
    /\ call[c].pc = "remove_update"
    /\ coins' = [coins EXCEPT !["a"] = @ - call[c].amount]
    /\ AfterRemove(c, TRUE)
    /\ EconomyFrame

\* gift_coins, lines 67-68: add_coins for the receiver; the UPDATE of
\* add_coins (lines 13-17) matches no row when the receiver has no account
GiftAdd(c) ==
    /\ call[c].pc = "gift_add"
    /\ coins' = IF call[c].to \in Accounts
                THEN [coins EXCEPT ![call[c].to] = @ + call[c].amount]
                ELSE coins
    /\ Returns(c, "ok")
    /\ EconomyFrame

EconomyNext ==
    \/ \E c \in Callers : Enter(c)
    \/ \E c \in Callers : PurchaseBalance(c)
    \/ \E c \in Callers : GiftBalance(c)
    \/ \E c \in Callers : RemoveBalance(c)
    \/ \E c \in Callers : RemoveUpdate(c)
    \/ \E c \in Callers : GiftAdd(c)

\* the coins the calls that reported success were to take from "a"
RECURSIVE Debited(_)
Debited(S) ==
    IF S = {} THEN 0
    ELSE LET c == CHOOSE x \in S : TRUE
         IN  (IF call[c].result = "ok" THEN call[c].amount ELSE 0)
                 + Debited(S \ {c})

(***************************************************************************)
(* SpecShop: the two places a purchase is asked for by the name of an      *)
(* item, CommandHandlers.buy (bot.py) and EconomySystem.process_purchase   *)
(* (economy.py), side by side.  They share no state.                       *)
(***************************************************************************)
ShopInit ==
    LedgerInit /\ SessionIdle /\ CurveIdle /\ CacheIdle /\ SimpleIdle /\ EconomyCalls

ShopNext ==
    \/ \E u \in Users, w \in BuyWords : Buy(u, w)
    \/ \E u \in Users, w \in UnknownWords, f \in HandlerFates : BuyUnknown(u, w, f)
    \/ EconomyNext

(***************************************************************************)
(* SpecGifts: gift_coins of economy.py called by two callers for the       *)
(* sender "a", with amounts below, at and above zero, for a receiver with  *)
(* an account, for the sender itself and for a receiver without account.   *)
(***************************************************************************)
GiftAmounts == {-500, 0, 500}
GiftReceivers == {"a", "b", "nobody"}
GiftInputs ==
    {[kind |-> "gift_coins", item |-> "none", amount |-> m, to |-> r] :
        m \in GiftAmounts, r \in GiftReceivers}

GiftsInit ==
    /\ LedgerInit /\ rows = {} /\ SessionIdle /\ CurveIdle /\ CacheIdle /\ SimpleIdle
    /\ CallsFrom(GiftInputs)

GiftsNext ==
    \/ \E c \in Callers : Enter(c)
    \/ \E c \in Callers : GiftBalance(c)
    \/ \E c \in Callers : RemoveBalance(c)
    \/ \E c \in Callers : RemoveUpdate(c)
    \/ \E c \in Callers : GiftAdd(c)

(***************************************************************************)
(* SpecCurve: the level curves of bot.py and level_system.py called on     *)
(* their own, on the levels up to MaxLevel and on the XP values around     *)
(* every threshold.                                                        *)
(***************************************************************************)
MaxLevel == 104
MaxDenseXp == 1100
Levels == 0..MaxLevel
XpNear == {-1, 0, 1, 50}
XpInputs ==
    (-2..MaxDenseXp)
        \cup {calculate_xp_for_level(l) + d : l \in Levels, d \in XpNear}
        \cup {xp_for_level(l) + d : l \in Levels, d \in XpNear}

CurveInit ==
    /\ LedgerInit /\ rows = {} /\ SessionIdle /\ EconomyIdle /\ CurveIdle
    /\ CacheIdle /\ SimpleIdle

CurveFrame == UNCHANGED <<ledgerVars, sessionVars, economyVars, cacheVars, simpleVars>>

\* calculate_xp_for_level and xp_for_level on two levels
Thresholds(l1, l2) ==
    /\ curve = NoCurveCall
    /\ curve' = [fn |-> "threshold", a |-> l1, b |-> l2,
                 bot |-> <<calculate_xp_for_level(l1), calculate_xp_for_level(l2)>>,
                 ls |-> <<xp_for_level(l1), xp_for_level(l2)>>,
                 raised |-> FALSE]
    /\ CurveFrame

\* calculate_level_from_xp and calculate_level on an XP value, and on the
\* threshold of the level they return; neither raises
LevelFor(e) ==
    /\ curve = NoCurveCall
    /\ curve' = [fn |-> "level", a |-> e, b |-> 0,
                 bot |-> <<calculate_level_from_xp(e),
                          calculate_level_from_xp(
                              calculate_xp_for_level(calculate_level_from_xp(e)))>>,
                 ls |-> <<calculate_level(e),
                         calculate_level(xp_for_level(calculate_level(e)))>>,
                 raised |-> FALSE]
    /\ CurveFrame

CurveNext ==
    \/ \E l1 \in Levels, l2 \in Levels : Thresholds(l1, l2)
    \/ \E e \in XpInputs : LevelFor(e)

(***************************************************************************)
(* SpecCache: rate_limit_cache at its capacity.  The cache is built as     *)
(* TTLCache(maxsize=1000, ttl=RATE_LIMIT_WINDOW), line 347: it keeps at    *)
(* most maxsize keys, and a key set while it is full discards the key used *)
(* least recently, a get and a set both being a use.  One identity is      *)
(* watched; the entries of the others are counted by the side of the       *)
(* watched entry they are on in the order of use.                          *)
(***************************************************************************)
RATE_LIMIT_CACHE_SIZE == 1000
Watched == "u1"
CrowdBurst == 250
MaxAdmitted == 32
MaxWindows == 2

\* the cache holds an entry of the watched identity that has not expired
Present == RateCount(Watched) > 0

CacheSize == crowd.older + crowd.newer + (IF Present THEN 1 ELSE 0)

CacheInit ==
    /\ LedgerInit /\ rows = {} /\ SessionIdle /\ EconomyIdle /\ CurveIdle
    /\ CacheIdle /\ SimpleIdle

CacheFrame ==
    UNCHANGED <<db, rows, pending, grants, steps,
                sessionVars, economyVars, curveVars, simpleVars>>

\* the history of an event that went through check_rate_limit
Checked(u, outcome) == [Idle EXCEPT !.op = "message", !.user = u, !.outcome = outcome]

\* check_rate_limit returns True for an event of the watched identity: the
\* set of line 400 makes its entry the most recently used, and for a key
\* that a full cache does not hold it discards the entry used least recently
WatchedAdmitted ==
    /\ admitted < MaxAdmitted
    /\ Admit(Watched)
    /\ admitted' = admitted + 1
    /\ LET discarded == IF ~Present /\ CacheSize = RATE_LIMIT_CACHE_SIZE THEN 1 ELSE 0
       IN  crowd' = [older |-> crowd.older + crowd.newer - discarded, newer |-> 0]
    /\ last' = Checked(Watched, "ok")
    /\ UNCHANGED now
    /\ CacheFrame

\* check_rate_limit returns False (line 397-398): the get of line 395 was a
\* use of the entry, and nothing is set
WatchedDropped ==
    /\ RateCount(Watched) >= MAX_MESSAGES_PER_SECOND
    /\ crowd' = [older |-> crowd.older + crowd.newer, newer |-> 0]
    /\ last' = Checked(Watched, "rate_limited")
    /\ UNCHANGED <<now, rate, admitted>>
    /\ CacheFrame

\* k identities that the cache does not hold send one event each: each is
\* admitted and set, and the entries used least recently make room: those
\* before the watched entry, then the watched entry, then those after it
CrowdEvents(k) ==
    LET over == IF CacheSize + k > RATE_LIMIT_CACHE_SIZE
                THEN CacheSize + k - RATE_LIMIT_CACHE_SIZE ELSE 0
        fromOlder == Min(crowd.older, over)
        evicted == Present /\ over > fromOlder
        fromNewer == over - fromOlder - (IF evicted THEN 1 ELSE 0)
    IN  /\ crowd' = [older |-> crowd.older - fromOlder,
                     newer |-> crowd.newer + k - fromNewer]
        /\ rate' = IF evicted THEN [rate EXCEPT ![Watched] = NoRate] ELSE rate
        /\ last' = Checked("u2", "ok")
        /\ UNCHANGED <<now, admitted>>
        /\ CacheFrame

\* RATE_LIMIT_WINDOW passes without an event: every entry has expired
WindowPasses ==
    /\ now < StartTime + MaxWindows * RATE_LIMIT_WINDOW
    /\ now' = now + RATE_LIMIT_WINDOW
    /\ crowd' = NoCrowd
    /\ admitted' = 0
    /\ last' = [Idle EXCEPT !.op = "tick"]
    /\ UNCHANGED rate
    /\ CacheFrame

CacheNext ==
    \/ WatchedAdmitted
    \/ WatchedDropped
    \/ CrowdEvents(CrowdBurst)
    \/ WindowPasses

(***************************************************************************)
(* SpecSimple: SimpleLevelupBot (test_bot.py), one handler per step.       *)
(* main sets post_init before run_polling, so the bot id is known when    *)
(* the first update is handled.                                            *)
(***************************************************************************)
MaxSimpleXp == 220
SimpleDraws == {10, 20}
SimpleBot == "u2"

\* the entry that lines 39-40 and 66-67 store for a user id that has none
NewEntry == [xp |-> 0, level |-> 1]

\* the level below without the 1 that is added
simple_level_no_base(xp) == xp \div 100

\* line 74
simple_level(xp) == xp \div 100 + 1

\* level_command, lines 34-40, on self.user_data
level_command(data, user) ==
    IF data[user] = NoEntry THEN [data EXCEPT ![user] = NewEntry] ELSE data

\* handle_message, lines 51-80, on self.user_data
handle_message(data, user, is_bot, text, id, xp_gained) ==
    IF is_bot \/ ~text \/ user = id THEN data
    ELSE LET entry == IF data[user] = NoEntry THEN NewEntry ELSE data[user]
             xp == entry.xp + xp_gained
         IN  [data EXCEPT ![user] =
                 [xp |-> xp,
                  level |-> IF simple_level(xp) > entry.level
                            THEN simple_level(xp) ELSE entry.level]]

SimpleInit ==
    /\ LedgerInit /\ rows = {} /\ SessionIdle /\ EconomyIdle /\ CurveIdle
    /\ CacheIdle /\ SimpleIdle

SimpleFrame ==
    UNCHANGED <<ledgerVars, sessionVars, economyVars, curveVars, cacheVars>>

Handled(handler, u, is_bot, text) ==
    [op |-> handler, user |-> u, is_bot |-> is_bot, text |-> text, pre |-> user_data]

\* post_init, lines 120-124
PostInit ==
    /\ bot_id = "none"
    /\ bot_id' = SimpleBot
    /\ heard' = Handled("post_init", SimpleBot, TRUE, FALSE)
    /\ UNCHANGED user_data
    /\ SimpleFrame

LevelCommand(u) ==
    /\ bot_id # "none"
    /\ user_data' = level_command(user_data, u)
    /\ heard' = Handled("level", u, FALSE, TRUE)
    /\ UNCHANGED bot_id
    /\ SimpleFrame

HandleMessage(u, is_bot, text, xp_gained) ==
    /\ bot_id # "none"
    /\ user_data[u].xp < MaxSimpleXp
    /\ user_data' = handle_message(user_data, u, is_bot, text, bot_id, xp_gained)
    /\ heard' = Handled("message", u, is_bot, text)
    /\ UNCHANGED bot_id
    /\ SimpleFrame

SimpleNext ==
    \/ PostInit
    \/ \E u \in Users : LevelCommand(u)
    \/ \E u \in Users, b \in BOOLEAN, t \in BOOLEAN, g \in SimpleDraws :
            HandleMessage(u, b, t, g)

vars == <<ledgerVars, sessionVars, economyVars, curveVars, cacheVars, simpleVars>>

Next == LedgerNext

Spec == Init /\ [][Next]_vars

SpecSession == SessionInit /\ [][SessionNext]_vars

SpecEconomy == EconomyInit /\ [][EconomyNext]_vars

SpecCurve == CurveInit /\ [][CurveNext]_vars

SpecShop == ShopInit /\ [][ShopNext]_vars

SpecShared == SharedInit /\ [][SharedNext]_vars

SpecGrants == GrantsInit /\ [][GrantsNext]_vars

SpecAwards == AwardsInit /\ [][AwardsNext]_vars

SpecGifts == GiftsInit /\ [][GiftsNext]_vars

SpecCache == CacheInit /\ [][CacheNext]_vars

SpecSimple == SimpleInit /\ [][SimpleNext]_vars

(***************************************************************************)
(* The claims                                                              *)
(***************************************************************************)
\* C1: in every reachable state, after any sequence of processed messages,
\* daily claims, purchases and prestige operations, the hubcoins of every
\* account are >= 0.
C1_BalanceNeverNegative == \A u \in rows : db[u].hubcoins >= 0

\* C1, the case: a purchase was paid and left less than any item costs
C1_PaidDownToChange ==
    /\ last.op = "buy"
    /\ last.outcome = "ok"
    /\ db[last.user].hubcoins < NAMECHANGE_COST
    /\ db[last.user].hubcoins < last.pre.hubcoins

\* the price the handler of an item tests the balance against
Price(item) ==
    CASE item = "title" -> TITLE_COST
      [] item = "boost" -> BOOST_COST
      [] item = "vip" -> VIP_COST
      [] item = "mystery" -> MYSTERY_COST
      [] item = "spotlight" -> SPOTLIGHT_COST
      [] item = "namechange" -> NAMECHANGE_COST

\* C2: for every shop item, a purchase attempted with a balance below the
\* price is rejected and leaves every field of the account as it was.
C2_RejectedUnchanged ==
    (/\ last.op = "buy"
     /\ last.existed
     /\ last.item # "none"
     /\ last.pre.hubcoins < Price(last.item))
        => /\ last.outcome \in {"insufficient", "usage", "invalid"}
           /\ db[last.user] = last.pre

\* C2, the case: a title priced 1000 asked for with 999 coins
C2_TitleWith999 ==
    /\ last.op = "buy"
    /\ last.item = "title"
    /\ last.outcome = "insufficient"
    /\ last.pre.hubcoins = TITLE_COST - 1
    /\ db[last.user] = last.pre

\* C3: after every completed mutation of an account (a processed message,
\* a mystery box, a prestige reset) the stored level is
\* calculate_level_from_xp of the stored xp.
C3_LevelMatchesXp ==
    (/\ last.outcome = "ok"
     /\ \/ last.op \in {"message", "prestige_confirm"}
        \/ last.op = "buy" /\ last.item = "mystery")
        => db[last.user].level = calculate_level_from_xp(db[last.user].xp)

\* C4: an achievement that is in the achievements of an account is never
\* removed, and the reward of each achievement is added to the balance at
\* most once.
C4_AwardedOnce ==
    /\ last.existed => last.pre.achievements \subseteq db[last.user].achievements
    /\ \A u \in Users, k \in ACHIEVEMENTS : grants[u][k] <= 1

\* C5: two handlers that run concurrently for one account leave the row
\* that running them one after the other, in some order, leaves.
C5_Serialisable ==
    (\A t \in Tasks : pc[t] = "done") => db[Member] \in SerialOutcomes

\* C6: under every interleaving of remove_coins, process_purchase and
\* gift_coins calls that debit one account, its hubcoins never are negative
\* and the calls that report success take no more than the balance they
\* started from.
C6_DebitsCovered ==
    /\ coins["a"] >= 0
    /\ Debited(Callers) <= opening["a"]

\* C7: a message that arrives less than 60 seconds after the last message
\* of the same user leaves the account as it was.
C7_Debounce ==
    (/\ last.op = "message"
     /\ last.existed
     /\ last.pre.last_message_date # NoTime
     /\ now - last.pre.last_message_date < XP_COOLDOWN_SECONDS)
        => db[last.user] = last.pre

\* C8: when a step of process_message fails after the account was modified
\* (the level-up message or the achievement notification raises), the
\* persisted account is as it was before the call.
C8_FailAtomic ==
    (last.op = "message" /\ last.outcome = "failed") => db[last.user] = last.pre

\* C9: every external call of a handler (the level-up message, the
\* notification, the reply) happens after the handler's writes were
\* committed, never between the first write and the commit.
C9_CallsAfterCommit ==
    \A t \in Tasks : pc[t] \in ExternalCalls => heap[ref[t]] = db[Member]

\* C10: a prestige operation on an account whose level is below 100 ends
\* as not eligible and changes no field of the account.
C10_BelowHundredNotEligible ==
    (/\ last.op \in {"prestige", "prestige_confirm"}
     /\ last.existed
     /\ last.pre.level < 100)
        => /\ last.outcome = "not_eligible"
           /\ db[last.user] = last.pre

\* C10, the case: /prestige at level 99
C10_PrestigeAt99 ==
    /\ last.op = "prestige"
    /\ last.pre.level = 99
    /\ last.outcome = "not_eligible"
    /\ db[last.user] = last.pre

C12_VipPurchase ==
    (/\ last.op = "buy"
     /\ last.item = "vip"
     /\ last.outcome = "ok"
     /\ last.pre.hubcoins >= 10000)
        => /\ db[last.user].hubcoins = last.pre.hubcoins - 10000
           /\ db[last.user].vip_member
           /\ db[last.user].vip_expiry = now + 30 * SECONDS_PER_DAY
           /\ "vip" \in db[last.user].achievements

\* C13: the threshold function is strictly increasing on the levels >= 0
\* and is 0 at level 0, in bot.py and in level_system.py.
C13_ThresholdsIncrease ==
    curve.fn = "threshold" =>
        /\ curve.a < curve.b =>
              /\ curve.bot[1] < curve.bot[2]
              /\ curve.ls[1] < curve.ls[2]
        /\ curve.a = 0 => curve.bot[1] = 0 /\ curve.ls[1] = 0

\* C13, the case: the two levels around the last change of slope of bot.py
C13_AcrossLevel100 ==
    /\ curve.fn = "threshold"
    /\ curve.a = 100
    /\ curve.b = 101
    /\ curve.bot = <<67250, 69250>>

\* the levels a result is compared with
LevelsAbove == 0..(2 * MaxLevel)

\* level is the largest level whose threshold, by the curve T, is <= xp
LargestLevel(level, xp, T(_)) ==
    /\ level \in LevelsAbove
    /\ T(level) <= xp
    /\ \A l \in LevelsAbove : T(l) <= xp => l <= level

\* C14: for every xp >= 0, calculate_level_from_xp returns the largest
\* level whose threshold is <= xp (so does calculate_level); it returns 0
\* for 0, 10 for the threshold of level 10 and 9 for one below it.
C14_LargestLevel ==
    (curve.fn = "level" /\ curve.a >= 0) =>
        /\ LargestLevel(curve.bot[1], curve.a, calculate_xp_for_level)
        /\ LargestLevel(curve.ls[1], curve.a, xp_for_level)
        /\ curve.a = 0 => curve.bot[1] = 0
        /\ curve.a = calculate_xp_for_level(10) => curve.bot[1] = 10
        /\ curve.a = calculate_xp_for_level(10) - 1 => curve.bot[1] = 9

\* C14, the case: one XP below the threshold of level 10
C14_OneBelowLevel10 ==
    /\ curve.fn = "level"
    /\ curve.a = 999
    /\ curve.bot[1] = 9
    /\ curve.ls[1] = 9

\* C15: for every xp >= 0, the level of the threshold of the level of xp
\* is the level of xp.
C15_RoundTrip ==
    (curve.fn = "level" /\ curve.a >= 0) => curve.bot[2] = curve.bot[1]

\* C15, the case: an XP value strictly between two thresholds
C15_BetweenThresholds ==
    /\ curve.fn = "level"
    /\ curve.a = 1050
    /\ curve.bot = <<10, 10>>

\* C16: calculate_level_from_xp and calculate_level reject a negative xp;
\* they do not return a level for it.
C16_NegativeRejected ==
    (curve.fn = "level" /\ curve.a < 0) => curve.raised

\* C17: on a daily claim that is granted, the streak becomes the previous
\* streak + 1 if and only if the previous claim was exactly one calendar
\* day earlier; in every other case it becomes exactly 1.
C17_StreakRule ==
    (last.op = "daily" /\ last.outcome = "ok") =>
        LET dayAfter == /\ last.pre.last_daily_date # NoTime
                        /\ Date(now) = Date(last.pre.last_daily_date) + 1
        IN  /\ dayAfter => db[last.user].daily_streak = last.pre.daily_streak + 1
            /\ ~dayAfter => db[last.user].daily_streak = 1

\* C17, the case: the seventh claim on seven consecutive days
C17_SeventhDay ==
    /\ last.op = "daily"
    /\ last.outcome = "ok"
    /\ Date(now) = Date(last.pre.last_daily_date) + 1
    /\ last.pre.daily_streak = 6
    /\ db[last.user].daily_streak = 7

\* C17, the other case: a claim two calendar days after the last one
C17_AfterGap ==
    /\ last.op = "daily"
    /\ last.outcome = "ok"
    /\ last.pre.last_daily_date # NoTime
    /\ Date(now) = Date(last.pre.last_daily_date) + 2
    /\ db[last.user].daily_streak = 1

\* C18: whenever the expiry of a grant is in the past, every place that
\* reads the grant treats it as inactive: a daily claim pays what it pays
\* a user without VIP, a message gains the XP it gains without a boost.
C18_ExpiredReadsInactive ==
    /\ (/\ last.op = "daily"
        /\ last.outcome = "ok"
        /\ last.pre.vip_member
        /\ last.pre.vip_expiry # NoTime
        /\ last.pre.vip_expiry < now)
           => db[last.user].hubcoins =
                Flush(last.pre, daily([last.pre EXCEPT !.vip_member = FALSE], now)).hubcoins
    /\ (/\ last.op = "message"
        /\ last.outcome = "ok"
        /\ last.pre.boost_active
        /\ last.pre.boost_expiry < now)
           => db[last.user].xp - last.pre.xp \in XpDraws

\* what the specification requires of a stored title: non-empty, at most
\* MAX_TITLE_LENGTH characters, none of the restricted words in it whatever
\* the case of its letters
PassesValidation(title) ==
    /\ title # <<>>
    /\ Len(title) <= MAX_TITLE_LENGTH
    /\ ~\E w \in banned_words : Contains(LowerStr(title), w)

\* C19: the stored custom title of every account is empty or passes
\* validation, and a title purchase whose title does not pass is rejected
\* as a usage or validation error, never as insufficient funds, and leaves
\* every field of the account as it was.
C19_TitleValidated ==
    /\ \A u \in rows :
          db[u].custom_title = <<>> \/ PassesValidation(db[u].custom_title)
    /\ (/\ last.op = "buy"
        /\ last.item = "title"
        /\ ~PassesValidation(last.args))
           => /\ last.outcome \in {"usage", "invalid"}
              /\ db[last.user] = last.pre

\* C19 happens: a title with a restricted word is asked for by an account
\* that could not have paid for any title, and the answer is the validation
\* error
C19_InvalidBeforeFunds ==
    /\ last.op = "buy"
    /\ last.item = "title"
    /\ last.args # <<>>
    /\ ~PassesValidation(last.args)
    /\ last.pre.hubcoins < TITLE_COST
    /\ last.outcome = "invalid"
    /\ db[last.user] = last.pre

\* C19, the other case: a title that passes is bought and stored
C19_TitleStored ==
    /\ last.op = "buy"
    /\ last.item = "title"
    /\ last.outcome = "ok"
    /\ db[last.user].custom_title = last.args
    /\ db[last.user].custom_title # <<>>

\* C20: a purchase request that names an item that is not in the catalog
\* fails and changes no field of the account, in CommandHandlers.buy (the
\* request is answered with an error or with "Unknown item", the row is as
\* it was) and in EconomySystem.process_purchase (the call returns
\* "Invalid item" without a price, and balances that only such calls were
\* made on are the opening balances).
C20_UnknownItemFails ==
    /\ (/\ last.op = "buy"
        /\ last.item = "none"
        /\ last.args # <<>>
        /\ last.args[1] \notin BuyItemNames)
           => /\ last.outcome \in {"error", "unknown"}
              /\ db[last.user] = last.pre
    /\ \A c \in Callers :
          (/\ call[c].kind = "process_purchase"
           /\ call[c].item \notin ShopItems
           /\ call[c].pc = "done")
              => /\ call[c].result = "invalid"
                 /\ call[c].amount = 0
    /\ (\A c \in Callers :
            call[c].kind = "process_purchase" /\ call[c].item \notin ShopItems)
           => coins = opening

\* C20 happens: /buy sticker was sent by a user with a row and
\* process_purchase was called for a sticker on an account that holds coins
C20_StickerAskedFor ==
    /\ last.op = "buy"
    /\ last.existed
    /\ last.args = <<"sticker">>
    /\ last.outcome = "error"
    /\ db[last.user] = last.pre
    /\ \E c \in Callers :
          /\ call[c].item = "sticker"
          /\ call[c].result = "invalid"
          /\ coins["a"] = opening["a"]
          /\ opening["a"] >= ShopCost("spotlight")

\* C20, the other case: the last branch of the dispatch of buy answers
\* "Unknown item"
C20_UnknownItemReply ==
    /\ last.op = "buy"
    /\ last.args = <<"sticker">>
    /\ last.outcome = "unknown"
    /\ db[last.user] = last.pre

\* what a paid item does to the account besides the payment
ItemEffect(item, before, after, time) ==
    CASE item = "title" ->
            /\ after.custom_title # <<>>
            /\ after.custom_title_expiry = time + TITLE_DAYS * SECONDS_PER_DAY
      [] item = "boost" ->
            /\ after.boost_active
            /\ after.boost_expiry = time + BOOST_HOURS * SECONDS_PER_HOUR
      [] item = "spotlight" -> after.spotlight_priority
      [] item = "vip" ->
            /\ after.vip_member
            /\ after.vip_expiry = time + VIP_DAYS * SECONDS_PER_DAY

\* C21: every successful purchase of a title, a boost, the spotlight or VIP
\* leaves the balance lower by exactly the price of the item and the coins
\* spent higher by exactly that price, with the effect of the item applied.
C21_PurchaseExact ==
    (/\ last.op = "buy"
     /\ last.outcome = "ok"
     /\ last.item \in {"title", "boost", "spotlight", "vip"})
        => /\ db[last.user].hubcoins = last.pre.hubcoins - Price(last.item)
           /\ db[last.user].total_coins_spent =
                 last.pre.total_coins_spent + Price(last.item)
           /\ ItemEffect(last.item, last.pre, db[last.user], now)

\* C22: no operation an account starts raises the reputation of that
\* account: after every handler run the reputation of the user who sent the
\* command or the message is at most what it was before.
C22_NoSelfReputation ==
    (last.op # "none" /\ last.existed)
        => db[last.user].reputation <= last.pre.reputation

\* C23: the first message of an identity that has no account, once it is
\* admitted and its unit of work is committed, leaves an account that was
\* created from the defaults and then counted the message: one message,
\* the drawn XP gain as its XP, a positive balance and no grant active.
C23_FirstEventProcessed ==
    (/\ last.op = "message"
     /\ ~last.existed
     /\ last.outcome \notin {"ignored", "rate_limited", "rollback"})
        => /\ last.user \in rows
           /\ db[last.user].messages_count = 1
           /\ db[last.user].xp \in XpDraws
           /\ db[last.user].hubcoins > 0
           /\ ~db[last.user].vip_member
           /\ ~db[last.user].boost_active
           /\ db[last.user].custom_title = <<>>

\* C24: a message, a daily claim, a purchase and a prestige request of an
\* identity that has no account all create the account: after any of them
\* has run to its end the identity has a row.
C24_AutoCreateEverywhere ==
    (/\ last.op \in {"message", "daily", "buy", "prestige"}
     /\ ~last.existed
     /\ last.outcome \notin {"ignored", "rate_limited", "rollback"})
        => last.user \in rows

\* C25: in every step, the coins earned, the coins spent and the message
\* count of every account are at least what they were, and so is its XP
\* unless the step is a prestige reset.
C25_CountersMonotonic ==
    [][\A u \in Users :
          /\ db'[u].total_coins_earned >= db[u].total_coins_earned
          /\ db'[u].total_coins_spent >= db[u].total_coins_spent
          /\ db'[u].messages_count >= db[u].messages_count
          /\ \/ db'[u].xp >= db[u].xp
             \/ last'.op = "prestige_confirm" /\ last'.user = u]_vars

\* C25 happens: a mystery box was paid and gave XP and coins, so the coins
\* spent, the coins earned and the XP all grew
C25_MysteryGrewCounters ==
    /\ last.op = "buy"
    /\ last.item = "mystery"
    /\ last.outcome = "ok"
    /\ db[last.user].total_coins_spent > last.pre.total_coins_spent
    /\ db[last.user].total_coins_earned > last.pre.total_coins_earned
    /\ db[last.user].xp > last.pre.xp

\* C25, the exception: a prestige reset took the XP down and left the three
\* counters as they were
C25_PrestigeLoweredXp ==
    /\ last.op = "prestige_confirm"
    /\ last.outcome = "ok"
    /\ db[last.user].xp < last.pre.xp
    /\ db[last.user].total_coins_earned = last.pre.total_coins_earned
    /\ db[last.user].total_coins_spent = last.pre.total_coins_spent
    /\ db[last.user].messages_count = last.pre.messages_count

\* C26: a step of the handler that works for one user leaves the row of
\* every other user as it was, whether the handler goes on to succeed or
\* to fail.
C26_OthersUnchanged ==
    [][\A t \in Tasks :
          pc'[t] # pc[t]
              => \A u \in Users \ {TaskUser[t]} : db'[u] = db[u]]_vars

\* the rewards of a set of achievements, added up
RECURSIVE RewardsOf(_)
RewardsOf(keys) ==
    IF keys = {} THEN 0
    ELSE LET k == CHOOSE x \in keys : TRUE
         IN  AchievementReward(k) + RewardsOf(keys \ {k})

\* C27: a processed message that takes the computed level above the stored
\* level stores the new level and adds new level times 50 to the balance
\* and to the coins earned, on top of the coin gain of the message and the
\* rewards of the achievements it earned; a message that does not leaves
\* the level and adds no bonus; and an account that crosses the threshold
\* of level 10 has the level_10 achievement on its row afterwards.
C27_LevelUpBonus ==
    (last.op = "message" /\ last.outcome = "ok" /\ last.existed)
        => LET after == db[last.user]
               new_level == calculate_level_from_xp(after.xp)
               bonus == IF new_level > last.pre.level
                        THEN new_level * LEVEL_UP_COIN_BONUS ELSE 0
               earned == RewardsOf(EarnedBy(last.pre, last.obj))
           IN  /\ after.level = IF new_level > last.pre.level
                                THEN new_level ELSE last.pre.level
               /\ \E c \in CoinDraws, m \in {1, 2} :
                     /\ after.hubcoins = last.pre.hubcoins + c * m + bonus + earned
                     /\ after.total_coins_earned =
                           last.pre.total_coins_earned + c * m + bonus + earned
               /\ (last.pre.level < 10 /\ after.level >= 10)
                     => "level_10" \in after.achievements

\* a grant that was bought and whose expiry has not passed
Running(active, expiry) == active /\ ~(expiry # NoTime /\ expiry <= now)

\* the XP and the coins a committed message added as its own gain: the
\* coins without the level-up bonus and the rewards of achievements
XpGain == db[last.user].xp - last.pre.xp

CoinGain ==
    LET new_level == calculate_level_from_xp(db[last.user].xp)
        bonus == IF new_level > last.pre.level
                 THEN new_level * LEVEL_UP_COIN_BONUS ELSE 0
    IN  db[last.user].hubcoins - last.pre.hubcoins - bonus
            - RewardsOf(EarnedBy(last.pre, last.obj))

\* C28: in a processed message the XP gain is twice the draw exactly when
\* the boost of the user is running, the coin gain is twice the draw
\* exactly when the VIP of the user is running, and neither depends on the
\* other grant.
C28_IndependentMultipliers ==
    (last.op = "message" /\ last.outcome = "ok" /\ last.existed)
        => /\ XpGain \in
                 IF Running(last.pre.boost_active, last.pre.boost_expiry)
                 THEN {2 * x : x \in XpDraws} ELSE XpDraws
           /\ CoinGain \in
                 IF Running(last.pre.vip_member, last.pre.vip_expiry)
                 THEN {2 * c : c \in CoinDraws} ELSE CoinDraws

\* C28 happens: a message of a user whose boost and VIP both run doubles
\* both gains
C28_BothDoubled ==
    /\ last.op = "message"
    /\ last.outcome = "ok"
    /\ Running(last.pre.boost_active, last.pre.boost_expiry)
    /\ Running(last.pre.vip_member, last.pre.vip_expiry)
    /\ XpGain = 50
    /\ CoinGain = 10

\* C28, the mixed cases: only the boost runs, only VIP runs, and a boost
\* that ran out while VIP still runs
C28_BoostOnly ==
    /\ last.op = "message"
    /\ last.outcome = "ok"
    /\ Running(last.pre.boost_active, last.pre.boost_expiry)
    /\ last.pre.vip_member
    /\ ~Running(last.pre.vip_member, last.pre.vip_expiry)
    /\ XpGain = 20
    /\ CoinGain = 5

C28_VipOnly ==
    /\ last.op = "message"
    /\ last.outcome = "ok"
    /\ last.pre.boost_active
    /\ ~Running(last.pre.boost_active, last.pre.boost_expiry)
    /\ Running(last.pre.vip_member, last.pre.vip_expiry)
    /\ XpGain = 25
    /\ CoinGain = 2

\* the achievements check_all_achievements tests for
Evaluated == {AchievementOrder[i] : i \in 1..Len(AchievementOrder)}

\* C29: when check_all_achievements has returned, at the end of a message
\* or of a daily claim, every achievement it tests for whose condition
\* holds on the user as it left it is among the achievements of that user,
\* and evaluating that user again awards nothing.
C29_AllHeldAfterEvaluation ==
    (last.op \in {"message", "daily"} /\ last.outcome = "ok" /\ last.existed)
        => /\ \A key \in Evaluated :
                 Qualifies(last.obj, key) => key \in last.obj.achievements
           /\ EarnedBy(last.obj, check_all_achievements(last.obj)) = {}

\* C30: a mystery box that was paid for always applies a reward: coins on
\* top of the balance less the price, XP, a 12-hour boost or reputation;
\* and when none of the four draws succeeded the balance is the balance
\* before less the price plus the consolation prize, 500 coins lower.
C30_NeverPureLoss ==
    (last.op = "buy" /\ last.item = "mystery" /\ last.outcome = "ok")
        => LET draw == last.args[1]
               before == last.pre
               after == db[last.user]
           IN  /\ \/ after.hubcoins > before.hubcoins - MYSTERY_COST
                  \/ after.xp > before.xp
                  \/ /\ draw.boost
                     /\ after.boost_active
                     /\ after.boost_expiry = now + MYSTERY_BOOST_HOURS * SECONDS_PER_HOUR
                  \/ after.reputation > before.reputation
               /\ (draw.coins = 0 /\ draw.xp = 0 /\ ~draw.boost /\ draw.rep = 0)
                     => after.hubcoins = before.hubcoins - 500

\* C30 happens: a box was opened and none of the four draws succeeded
C30_Consolation ==
    /\ last.op = "buy"
    /\ last.item = "mystery"
    /\ last.outcome = "ok"
    /\ last.args = <<[coins |-> 0, xp |-> 0, boost |-> FALSE, rep |-> 0]>>
    /\ db[last.user].hubcoins = last.pre.hubcoins - 500
    /\ db[last.user].xp = last.pre.xp
    /\ db[last.user].reputation = last.pre.reputation

\* C30, another case: the boost is the only draw that succeeded
C30_BoostOnly ==
    /\ last.op = "buy"
    /\ last.item = "mystery"
    /\ last.outcome = "ok"
    /\ last.args = <<[coins |-> 0, xp |-> 0, boost |-> TRUE, rep |-> 0]>>
    /\ db[last.user].hubcoins = last.pre.hubcoins - MYSTERY_COST
    /\ db[last.user].boost_active

\* the id of the bot itself, one of the ids a message can come from:
\* process_message compares the sender with nothing
BotIdentity == "u2"

\* C31: a message from outside the configured group, or one whose sender
\* is the bot itself, creates no account and changes no row.
C31_ForeignEventsIgnored ==
    [][(/\ last'.op = "message"
        /\ \/ last'.outcome = "ignored"
           \/ last'.user = BotIdentity)
          => rows' = rows /\ db' = db]_vars

\* C32: gift_coins called with an amount of zero or less does not report
\* success, and when every call made is such a call the balances stay the
\* opening balances.
C32_NonPositiveGiftRejected ==
    /\ \A c \in Callers :
          (call[c].kind = "gift_coins" /\ call[c].amount <= 0 /\ call[c].pc = "done")
              => call[c].result # "ok"
    /\ (\A c \in Callers : call[c].kind = "gift_coins" /\ call[c].amount <= 0)
          => coins = opening

\* the coins of all accounts together
AllCoins(balances) == balances["a"] + balances["b"]

\* C33: gift_coins conserves coins: when every call made is a gift of a
\* positive amount and all have returned, the balances of all accounts add
\* up to what they added up to at the start.
C33_GiftConserves ==
    (\A c \in Callers :
        call[c].kind = "gift_coins" /\ call[c].amount > 0 /\ call[c].pc = "done")
        => AllCoins(coins) = AllCoins(opening)

\* C34: the balance of every account that has not been through a prestige
\* reset is the starting balance plus the coins earned less the coins
\* spent.
C34_LedgerConserved ==
    \A u \in rows :
        db[u].prestige = 0
            => db[u].hubcoins =
                  START_HUBCOINS + db[u].total_coins_earned - db[u].total_coins_spent

\* an expiry that is set and has not passed
Unexpired(expiry) == expiry # NoTime /\ expiry > now

\* C35: after a purchase that succeeded, the expiry of the boost, of VIP
\* and of the title is not earlier than it was if it had not passed before
\* the purchase.
C35_ExpiryNeverEarlier ==
    (last.op = "buy" /\ last.outcome = "ok")
        => /\ Unexpired(last.pre.boost_expiry)
                 => db[last.user].boost_expiry >= last.pre.boost_expiry
           /\ Unexpired(last.pre.vip_expiry)
                 => db[last.user].vip_expiry >= last.pre.vip_expiry
           /\ Unexpired(last.pre.custom_title_expiry)
                 => db[last.user].custom_title_expiry >= last.pre.custom_title_expiry

\* C36: on every level the threshold of level_system.py is the threshold of
\* bot.py, and on every XP value the two level functions return the same
\* level.
C36_SameCurve ==
    /\ curve.fn = "threshold" => curve.ls = curve.bot
    /\ curve.fn = "level" => curve.ls[1] = curve.bot[1]

\* C37: a /daily that is granted finds no earlier claim on today's date, and
\* a /daily on the date of the last claim is refused and leaves every field
\* of the account as it was.
C37_OneClaimPerDay ==
    last.op = "daily" /\ last.existed
        => /\ last.outcome = "ok"
                 => \/ last.pre.last_daily_date = NoTime
                    \/ Date(last.pre.last_daily_date) # Date(now)
           /\ (/\ last.pre.last_daily_date # NoTime
               /\ Date(last.pre.last_daily_date) = Date(now))
                 => /\ last.outcome = "already"
                    /\ db[last.user] = last.pre

\* C37 (witness): a second /daily on the date of a granted claim was refused
C37_SecondClaimRefused ==
    /\ last.op = "daily"
    /\ last.outcome = "already"
    /\ last.pre.last_daily_date = now
    /\ last.pre.daily_streak = 7

\* C38: at no time have more than MAX_MESSAGES_PER_SECOND events of one
\* identity been admitted within the RATE_LIMIT_WINDOW that began then.
C38_WindowLimit == admitted <= MAX_MESSAGES_PER_SECOND

\* C39: in SimpleLevelupBot every user with an entry has level = xp // 100
\* + 1, no handler lowers a level or removes an entry, and a message whose
\* sender is a bot or has the bot's own id leaves user_data as it was.
C39_SimpleLevels ==
    /\ \A u \in Users :
         user_data[u] # NoEntry
             => user_data[u].level = user_data[u].xp \div 100 + 1
    /\ \A u \in Users :
         heard.pre[u] # NoEntry
             => /\ user_data[u] # NoEntry
                /\ user_data[u].level >= heard.pre[u].level
    /\ (heard.op = "message" /\ (heard.is_bot \/ heard.user = bot_id))
         => user_data = heard.pre

\* C39 (witness): a message took its sender from level 2 to level 3
C39_ReachedLevelThree ==
    /\ heard.op = "message"
    /\ heard.pre[heard.user].level = 2
    /\ user_data[heard.user].level = 3

\* C39 (witness): a message of the bot's own id was handled after the bot
\* had an entry
C39_OwnMessageIgnored ==
    /\ heard.op = "message"
    /\ heard.user = bot_id
    /\ ~heard.is_bot
    /\ heard.text
    /\ user_data[heard.user] # NoEntry
====
